---- MODULE Spec2Model ----
(***************************************************************************)
(* Model of the EncrypT chat server: the ChatMessage framing codec         *)
(* (src/src/server/ChatMessage.cpp), the ChatRoom broadcast registry, the  *)
(* ChatSession read loop / write queue and the ChatServer accept loop      *)
(* (src/src/server/ChatServer.cpp, src/include/server/ChatServer.hpp).     *)
(*                                                                         *)
(* All completion handlers run on the single thread that calls             *)
(* io_context.run() (ChatServer.cpp:172), so every handler is one atomic   *)
(* action.                                                                 *)
(***************************************************************************)
EXTENDS Integers, Sequences, FiniteSets, TLC

(***************************************************************************)
(* Program constants.                                                      *)
(***************************************************************************)
\* ChatMessage::header_length (ChatMessage.hpp is not among the sources; the
\* width is the one encode_header formats with, "%4d").
header_length == 4

\* ChatMessage::max_body_length (ChatMessage.hpp is not among the sources).
max_body_length == 512

\* ChatRoom::max_recent_msgs
max_recent_msgs == 100

\* Converting a negative int to std::size_t (body_length_ = std::atoi(header))
\* adds 2^64.  TLC's integers are 32 bits wide, so the model adds SizeWrap in
\* its place: like 2^64 it exceeds every int the header field can hold by more
\* than max_body_length, which is all the code's comparison depends on.
SizeWrap == 2147480000

(***************************************************************************)
(* Bounds of the model.                                                    *)
(***************************************************************************)
\* sessions ever accepted
MaxSessions == 2
\* frames handed to ChatRoom::deliver in one run, all rooms together
MaxDelivers == 2
\* accepts that complete with an error in one run, all acceptors together
MaxAcceptErrors == 1

Sessions == 1..MaxSessions
\* the ports of the command line, one ChatServer each (main, ChatServer.cpp:166)
Servers == {1, 2}

(***************************************************************************)
(* Characters.  A char is a one-character string; NUL is "\0" written as   *)
(* the string "NUL".                                                       *)
(***************************************************************************)
NUL == "NUL"
Junk == "?"
Digits == <<"0", "1", "2", "3", "4", "5", "6", "7", "8", "9">>
DigitSet == {Digits[i] : i \in 1..10}
DigitVal(c) == (CHOOSE i \in 1..10 : Digits[i] = c) - 1
\* isspace(): the characters atoi skips
SpaceSet == {" ", "\t", "\n"}

\* the first n elements of s (all of s when it is shorter)
Take(s, n) == SubSeq(s, 1, IF n < Len(s) THEN n ELSE Len(s))
Drop(s, n) == SubSeq(s, n + 1, Len(s))

(***************************************************************************)
(* ChatMessage: the codec (src/src/server/ChatMessage.cpp).                *)
(* A message is [body_length, data, id, src]: data holds the first         *)
(* header_length + body_length chars of data_.  id and src are history     *)
(* tags that record where a copy comes from: id is the number, on its      *)
(* room, of the ChatRoom::deliver call that handed the message on (0: none *)
(* yet), src the frame as the sending session read it off its socket.      *)
(***************************************************************************)
\* std::strncat(header, data_, header_length): at most header_length chars of
\* data_, stopping before the first NUL
RECURSIVE UpToNul(_)
UpToNul(s) ==
    IF s = <<>> \/ Head(s) = NUL THEN <<>> ELSE <<Head(s)>> \o UpToNul(Tail(s))

strncat_header(data) == UpToNul(Take(data, header_length))

RECURSIVE SkipSpace(_)
SkipSpace(s) ==
    IF s # <<>> /\ Head(s) \in SpaceSet THEN SkipSpace(Tail(s)) ELSE s

\* the value of the leading run of digits of s, continuing from acc
RECURSIVE DigitsValue(_, _)
DigitsValue(s, acc) ==
    IF s # <<>> /\ Head(s) \in DigitSet
    THEN DigitsValue(Tail(s), 10 * acc + DigitVal(Head(s)))
    ELSE acc

\* std::atoi: leading white space, an optional sign, then decimal digits up to
\* the first char that is none; 0 when there is no digit
atoi(s) ==
    LET t == SkipSpace(s)
    IN  IF t # <<>> /\ Head(t) = "-" THEN 0 - DigitsValue(Tail(t), 0)
        ELSE IF t # <<>> /\ Head(t) = "+" THEN DigitsValue(Tail(t), 0)
        ELSE DigitsValue(t, 0)

\* the conversion int -> std::size_t of the assignment to body_length_
ToSizeT(v) == IF v < 0 THEN SizeWrap + v ELSE v

\* decode_header rejecting a header equal to max_body_length (>= for >)
DecodeRejectsAtMax(data) ==
    LET parsed == ToSizeT(atoi(strncat_header(data)))
    IN  IF parsed >= max_body_length
        THEN [ok |-> FALSE, body_length |-> 0]
        ELSE [ok |-> TRUE, body_length |-> parsed]

\* ChatMessage::decode_header: [ok, body_length]
decode_header(data) ==
    LET parsed == ToSizeT(atoi(strncat_header(data)))
    IN  IF parsed > max_body_length
        THEN [ok |-> FALSE, body_length |-> 0]
        ELSE [ok |-> TRUE, body_length |-> parsed]

\* the decimal text of n >= 0
RECURSIVE DecimalText(_)
DecimalText(n) ==
    IF n < 10 THEN <<Digits[n + 1]>>
    ELSE DecimalText(n \div 10) \o <<Digits[(n % 10) + 1]>>

\* std::sprintf(header, "%4d", n): the decimal text, right-justified in a
\* field of at least 4 chars, padded with spaces
Format4d(n) ==
    LET text == IF n < 0 THEN <<"-">> \o DecimalText(0 - n) ELSE DecimalText(n)
    IN  [i \in 1..(4 - Len(text)) |-> " "] \o text

\* encode_header writing length() in place of body_length_
EncodeTotalLength(body_length) ==
    Take(Format4d(header_length + body_length), header_length)

\* ChatMessage::encode_header: the header_length chars memcpy'd over the start
\* of data_
encode_header(body_length) == Take(Format4d(body_length), header_length)

(***************************************************************************)
(* State.                                                                  *)
(***************************************************************************)
VARIABLES
    participants,   \* ChatRoom::participants_ of each ChatServer's room_
    recent_msgs,    \* ChatRoom::recent_msgs_ of each ChatServer's room_
    port,           \* the ChatServer that accepted each session (0: not yet)
    rd,             \* each session's pending read: "none", "header", "body", "stopped"
    reading,        \* number of the session's async_read operations outstanding
    read_msg,       \* ChatSession::read_msg_
    write_msgs,     \* ChatSession::write_msgs_
    writing,        \* number of the session's async_write operations outstanding
    socket_out,     \* the frames each session's completed writes put on its socket
    calls,          \* number of ChatRoom::deliver calls on each room so far
    join_at,        \* calls of its room when the session joined (-1: not yet)
    heap,           \* what storage left uninitialised holds in this run
    msg,            \* a ChatMessage under test by the codec specification
    acceptor        \* each ChatServer's acceptor_: the async_accept operations
                    \* outstanding (armed) and the accepts that completed with
                    \* an error so far (errors)

vars == <<participants, recent_msgs, port, rd, reading, read_msg, write_msgs,
          writing, socket_out, calls, join_at, heap, msg, acceptor>>

sessionVars == <<participants, recent_msgs, port, rd, reading, read_msg,
                 write_msgs, writing, socket_out, calls, join_at, heap>>

\* ChatMessage::ChatMessage(): body_length_ is 0; data_ is left as it is and is
\* overwritten by the first header read before anything reads it
NewMessage ==
    [body_length |-> 0, data |-> [i \in 1..header_length |-> Junk], id |-> 0,
     src |-> <<>>]

\* ChatMessage::length
length(m) == header_length + m.body_length

\* ChatMessage::body: the chars after the header
body(m) == SubSeq(m.data, header_length + 1, length(m))

(***************************************************************************)
(* The copy constructor initialises body_length_ only: data_ of the copy   *)
(* is left indeterminate.  What such storage holds is drawn once per run   *)
(* (heap): bytes that differ from the source's (Junk), or bytes that       *)
(* happen to equal them (Stale).                                           *)
(***************************************************************************)
Stale == "stale"
Garbage == {Junk, Stale}

Indeterminate(m, g) == IF g = Stale THEN m.data ELSE [i \in 1..Len(m.data) |-> g]

\* ChatMessage::ChatMessage(const ChatMessage &)
CopyMessage(m, g) ==
    [body_length |-> m.body_length, data |-> Indeterminate(m, g), id |-> m.id,
     src |-> m.src]

(***************************************************************************)
(* ChatRoom.                                                               *)
(***************************************************************************)
\* leave erasing through an unchecked find(): a non-member empties the set
RoomLeaveUnchecked(P, s) == IF s \in P THEN P \ {s} ELSE {}

\* participants_.insert(participant)
RoomInsert(P, s) == P \cup {s}

\* ChatRoom::leave: participants_.erase(participant)
RoomLeave(P, s) == P \ {s}

\* the eviction loop with >= for >
RECURSIVE PopWhileAtLeast(_)
PopWhileAtLeast(h) == IF Len(h) >= max_recent_msgs THEN PopWhileAtLeast(Tail(h)) ELSE h

\* recent_msgs_.push_back(msg); while (size > max_recent_msgs) pop_front()
RECURSIVE PopWhileOver(_)
PopWhileOver(h) == IF Len(h) > max_recent_msgs THEN PopWhileOver(Tail(h)) ELSE h

PushRecent(h, m, g) == PopWhileOver(Append(h, CopyMessage(m, g)))

\* deliver with push_front for push_back
EnqueueFront(q, m, g) == <<CopyMessage(m, g)>> \o q

\* ChatSession::deliver, the queue: write_msgs_.push_back(msg)
Enqueue(q, m, g) == Append(q, CopyMessage(m, g))

\* deliver calling do_write() whatever the queue held
DoWriteAlways(q, w) == w + 1

\* ChatSession::deliver, the write: do_write() unless a write was in progress,
\* that is unless the queue was non-empty before the push; w counts the
\* async_write operations outstanding
WritingAfterDeliver(q, w) == IF q = <<>> THEN w + 1 ELSE w

\* the replay walking recent_msgs_ from its newest element
ReplayNewestFirst(q, h, g) ==
    q \o [i \in 1..Len(h) |-> Enqueue(<<>>, CopyMessage(h[Len(h) + 1 - i], g), g)[1]]

\* ChatRoom::join's loop: for (auto msg : recent_msgs_) participant->deliver(msg)
\* (msg is a copy of the element, the queue holds a copy of msg): the i-th
\* deliver puts its message behind those of the deliver calls before it
Replay(q, h, g) ==
    q \o [i \in 1..Len(h) |-> Enqueue(<<>>, CopyMessage(h[i], g), g)[1]]

(***************************************************************************)
(* What the modelled clients send.                                         *)
(***************************************************************************)
\* the bodies clients send
ClientBodies == {<<>>, <<"h", "i">>}
Bodies(n) == {b \in ClientBodies : Len(b) = n}

\* the headers clients send: the encoded lengths of those bodies, and one
\* field above max_body_length
ClientHeaders ==
    {encode_header(Len(b)) : b \in ClientBodies} \cup {<<"9", "9", "9", "9">>}

\* data_ once a header h announcing n body bytes is in: the body region keeps
\* what it held (Junk where nothing was read yet)
WithHeader(m, h, n) ==
    h \o [i \in 1..n |->
             IF header_length + i <= Len(m.data) THEN m.data[header_length + i] ELSE Junk]

(***************************************************************************)
(* Initial state: main() has constructed one ChatServer per port, each     *)
(* with an accept armed; nothing is connected.                             *)
(***************************************************************************)
InitMsg == [pc |-> "idle", m |-> NewMessage, n0 |-> 0, ok |-> TRUE]

SessionInit ==
    /\ participants = [sv \in Servers |-> {}]
    /\ recent_msgs = [sv \in Servers |-> <<>>]
    /\ port = [s \in Sessions |-> 0]
    /\ rd = [s \in Sessions |-> "none"]
    /\ reading = [s \in Sessions |-> 0]
    /\ read_msg = [s \in Sessions |-> NewMessage]
    /\ write_msgs = [s \in Sessions |-> <<>>]
    /\ writing = [s \in Sessions |-> 0]
    /\ socket_out = [s \in Sessions |-> <<>>]
    /\ calls = [sv \in Servers |-> 0]
    /\ join_at = [s \in Sessions |-> -1]
    /\ heap \in Garbage
    /\ acceptor = [sv \in Servers |-> [armed |-> 1, errors |-> 0]]

Init ==
    /\ SessionInit
    /\ msg = InitMsg

(***************************************************************************)
(* ChatServer::do_accept's completion handler.                             *)
(***************************************************************************)
\* one room for the whole process
SharedRoom(sv) == 1

\* the room a session made by ChatServer sv is bound to: the server's own
\* member room_ (ChatServer.hpp:88, ChatServer.cpp:146)
RoomOf(sv) == sv

\* !ec: make_shared<chat_session>(socket, room_)->start(), which joins the room
\* (insert, then the replay of recent_msgs_) and arms the header read
AcceptOk(sv) ==
    /\ acceptor[sv].armed > 0
    /\ acceptor' = [acceptor EXCEPT ![sv].armed = @ - 1 + 1]
    /\ \E s \in Sessions :
        /\ port[s] = 0
        /\ \A t \in Sessions : t < s => port[t] # 0
        /\ LET r == RoomOf(sv)
                q == Replay(write_msgs[s], recent_msgs[r], heap)
            IN  /\ port' = [port EXCEPT ![s] = sv]
                /\ participants' = [participants EXCEPT ![r] = RoomInsert(@, s)]
                /\ write_msgs' = [write_msgs EXCEPT ![s] = q]
                /\ writing' = [writing EXCEPT ![s] =
                        IF recent_msgs[r] = <<>> THEN @
                        ELSE WritingAfterDeliver(write_msgs[s], @)]
                /\ rd' = [rd EXCEPT ![s] = "header"]
                /\ reading' = [reading EXCEPT ![s] = @ + 1]
                /\ join_at' = [join_at EXCEPT ![s] = calls[r]]
    /\ UNCHANGED <<recent_msgs, read_msg, socket_out, calls, heap, msg>>

\* accepts that completed with an error so far, all acceptors together
RECURSIVE SumErrors(_)
SumErrors(S) ==
    IF S = {} THEN 0
    ELSE LET sv == CHOOSE x \in S : TRUE IN acceptor[sv].errors + SumErrors(S \ {sv})

\* a handler that returns on ec without the next do_accept()
AcceptFailHalt(sv) ==
    /\ acceptor[sv].armed > 0
    /\ SumErrors(Servers) < MaxAcceptErrors
    /\ acceptor' = [acceptor EXCEPT ![sv].armed = @ - 1, ![sv].errors = @ + 1]
    /\ UNCHANGED <<sessionVars, msg>>

\* ec: nothing but the next do_accept()
AcceptFail(sv) ==
    /\ acceptor[sv].armed > 0
    /\ SumErrors(Servers) < MaxAcceptErrors
    /\ acceptor' = [acceptor EXCEPT ![sv].armed = @ - 1 + 1, ![sv].errors = @ + 1]
    /\ UNCHANGED <<sessionVars, msg>>

\* ec ranges over the outcomes ECs of the accept (TRUE: an error)
Accept(sv, ECs) == \E ec \in ECs : IF ec THEN AcceptFail(sv) ELSE AcceptOk(sv)

(***************************************************************************)
(* ChatSession::do_read_header's completion handler.                       *)
(***************************************************************************)
\* a header read that, on an error or an undecodable header, is armed again
\* with the session still in the room
ReadHeaderRetry(s, ECs) ==
    /\ rd[s] = "header"
    /\ \E ec \in ECs, h \in ClientHeaders :
        LET d == decode_header(h)
        IN  /\ read_msg' = [read_msg EXCEPT ![s] =
                    IF ec THEN @
                    ELSE [body_length |-> d.body_length,
                          data |-> WithHeader(@, h, d.body_length), id |-> 0,
                          src |-> <<>>]]
            /\ rd' = [rd EXCEPT ![s] = IF ~ec /\ d.ok THEN "body" ELSE "header"]
            /\ reading' = [reading EXCEPT ![s] = @ - 1 + 1]
    /\ UNCHANGED <<participants, recent_msgs, port, write_msgs, writing, socket_out,
                   calls, join_at, heap, msg, acceptor>>

\* ec ranges over the outcomes ECs the transport produces (TRUE: an error)
ReadHeaderDone(s, ECs) ==
    /\ rd[s] = "header"
    /\ \E ec \in ECs, h \in ClientHeaders :
        LET d == decode_header(h)
        IN  IF ~ec /\ d.ok
            THEN /\ read_msg' = [read_msg EXCEPT ![s] =
                        [body_length |-> d.body_length,
                         data |-> WithHeader(@, h, d.body_length), id |-> 0,
                         src |-> <<>>]]
                 /\ rd' = [rd EXCEPT ![s] = "body"]
                 /\ reading' = [reading EXCEPT ![s] = @ - 1 + 1]
                 /\ UNCHANGED participants
            ELSE /\ read_msg' = [read_msg EXCEPT ![s] =
                        IF ec THEN @
                        ELSE [body_length |-> 0, data |-> h, id |-> 0, src |-> <<>>]]
                 /\ rd' = [rd EXCEPT ![s] = "stopped"]
                 /\ reading' = [reading EXCEPT ![s] = @ - 1]
                 /\ participants' = [participants EXCEPT ![RoomOf(port[s])] = RoomLeave(@, s)]
    /\ UNCHANGED <<recent_msgs, port, write_msgs, writing, socket_out, calls,
                   join_at, heap, msg, acceptor>>

(***************************************************************************)
(* ChatSession::do_read_body's completion handler.                         *)
(***************************************************************************)
\* deliver forwarding to every session ever accepted, member or not
RoomDeliverAll(r, m, g) ==
    /\ recent_msgs' = [recent_msgs EXCEPT ![r] = PushRecent(@, m, g)]
    /\ write_msgs' = [t \in Sessions |->
            IF port[t] # 0 THEN Enqueue(write_msgs[t], m, g) ELSE write_msgs[t]]
    /\ writing' = [t \in Sessions |->
            IF port[t] # 0 THEN WritingAfterDeliver(write_msgs[t], writing[t])
            ELSE writing[t]]

\* ChatRoom::deliver(msg) on room r: the push onto recent_msgs_ with its
\* eviction, then participant->deliver(msg) for every member
RoomDeliver(r, m, g) ==
    /\ recent_msgs' = [recent_msgs EXCEPT ![r] = PushRecent(@, m, g)]
    /\ write_msgs' = [t \in Sessions |->
            IF t \in participants[r] THEN Enqueue(write_msgs[t], m, g) ELSE write_msgs[t]]
    /\ writing' = [t \in Sessions |->
            IF t \in participants[r] THEN WritingAfterDeliver(write_msgs[t], writing[t])
            ELSE writing[t]]

\* ChatRoom::deliver calls so far, all rooms together
RECURSIVE SumCalls(_)
SumCalls(S) ==
    IF S = {} THEN 0
    ELSE LET r == CHOOSE x \in S : TRUE IN calls[r] + SumCalls(S \ {r})

TotalCalls == SumCalls(Servers)

\* a handler that calls do_read_header() both before and after the deliver
ReadBodyOkTwice(s, limit) ==
    /\ rd[s] = "body"
    /\ TotalCalls < limit
    /\ \E b \in Bodies(read_msg[s].body_length) :
        LET frame == Take(read_msg[s].data, header_length) \o b
            m == [body_length |-> read_msg[s].body_length, data |-> frame,
                  id |-> calls[RoomOf(port[s])] + 1, src |-> frame]
        IN  /\ read_msg' = [read_msg EXCEPT ![s] = [m EXCEPT !.id = 0, !.src = <<>>]]
            /\ RoomDeliver(RoomOf(port[s]), m, heap)
    /\ calls' = [calls EXCEPT ![RoomOf(port[s])] = @ + 1]
    /\ rd' = [rd EXCEPT ![s] = "header"]
    /\ reading' = [reading EXCEPT ![s] = @ - 1 + 2]
    /\ UNCHANGED <<participants, port, socket_out, join_at, heap, msg, acceptor>>

\* !ec: room_.deliver(read_msg_), then do_read_header()
ReadBodyOk(s, limit) ==
    /\ rd[s] = "body"
    /\ TotalCalls < limit
    /\ \E b \in Bodies(read_msg[s].body_length) :
        LET frame == Take(read_msg[s].data, header_length) \o b
            m == [body_length |-> read_msg[s].body_length, data |-> frame,
                  id |-> calls[RoomOf(port[s])] + 1, src |-> frame]
        IN  /\ read_msg' = [read_msg EXCEPT ![s] = [m EXCEPT !.id = 0, !.src = <<>>]]
            /\ RoomDeliver(RoomOf(port[s]), m, heap)
    /\ calls' = [calls EXCEPT ![RoomOf(port[s])] = @ + 1]
    /\ rd' = [rd EXCEPT ![s] = "header"]
    /\ reading' = [reading EXCEPT ![s] = @ - 1 + 1]
    /\ UNCHANGED <<participants, port, socket_out, join_at, heap, msg, acceptor>>

\* an error branch that, besides leaving, tells the remaining members: an
\* empty message is enqueued to each of them
ReadBodyFailNotify(s) ==
    /\ rd[s] = "body"
    /\ rd' = [rd EXCEPT ![s] = "stopped"]
    /\ reading' = [reading EXCEPT ![s] = @ - 1]
    /\ LET r == RoomOf(port[s])
           rest == RoomLeave(participants[r], s)
       IN  /\ participants' = [participants EXCEPT ![r] = rest]
           /\ write_msgs' = [t \in Sessions |->
                   IF t \in rest THEN Enqueue(write_msgs[t], NewMessage, heap)
                   ELSE write_msgs[t]]
           /\ writing' = [t \in Sessions |->
                   IF t \in rest THEN WritingAfterDeliver(write_msgs[t], writing[t])
                   ELSE writing[t]]
    /\ UNCHANGED <<recent_msgs, port, read_msg, socket_out, calls, join_at, heap,
                   msg, acceptor>>

\* ec: room_.leave(shared_from_this())
ReadBodyFail(s) ==
    /\ rd[s] = "body"
    /\ rd' = [rd EXCEPT ![s] = "stopped"]
    /\ reading' = [reading EXCEPT ![s] = @ - 1]
    /\ participants' = [participants EXCEPT ![RoomOf(port[s])] = RoomLeave(@, s)]
    /\ UNCHANGED <<recent_msgs, port, read_msg, write_msgs, writing, socket_out,
                   calls, join_at, heap, msg, acceptor>>

ReadBodyDone(s, limit) == ReadBodyOk(s, limit) \/ ReadBodyFail(s)

(***************************************************************************)
(* ChatSession::do_write's completion handler.                             *)
(***************************************************************************)
\* a handler that pops the front and returns, without the next do_write()
WriteOkNoRestart(s) ==
    /\ writing[s] > 0
    /\ socket_out' = [socket_out EXCEPT ![s] = Append(@, Head(write_msgs[s]))]
    /\ write_msgs' = [write_msgs EXCEPT ![s] = Tail(@)]
    /\ writing' = [writing EXCEPT ![s] = @ - 1]
    /\ UNCHANGED <<participants, recent_msgs, port, rd, reading, read_msg, calls,
                   join_at, heap, msg, acceptor>>

\* !ec: pop the front; do_write() again if the queue is not empty
WriteOk(s) ==
    /\ writing[s] > 0
    /\ socket_out' = [socket_out EXCEPT ![s] = Append(@, Head(write_msgs[s]))]
    /\ write_msgs' = [write_msgs EXCEPT ![s] = Tail(@)]
    /\ writing' = [writing EXCEPT ![s] =
            IF Tail(write_msgs[s]) # <<>> THEN @ - 1 + 1 ELSE @ - 1]
    /\ UNCHANGED <<participants, recent_msgs, port, rd, reading, read_msg, calls,
                   join_at, heap, msg, acceptor>>

\* an error branch that leaves the room and calls do_write() again
WriteFailRetry(s) ==
    /\ writing[s] > 0
    /\ writing' = [writing EXCEPT ![s] = @ - 1 + 1]
    /\ participants' = [participants EXCEPT ![RoomOf(port[s])] = RoomLeave(@, s)]
    /\ UNCHANGED <<recent_msgs, port, rd, reading, read_msg, write_msgs, socket_out,
                   calls, join_at, heap, msg, acceptor>>

\* ec: room_.leave(shared_from_this()); the queue is left as it is
WriteFail(s) ==
    /\ writing[s] > 0
    /\ writing' = [writing EXCEPT ![s] = @ - 1]
    /\ participants' = [participants EXCEPT ![RoomOf(port[s])] = RoomLeave(@, s)]
    /\ UNCHANGED <<recent_msgs, port, rd, reading, read_msg, write_msgs, socket_out,
                   calls, join_at, heap, msg, acceptor>>

WriteDone(s) == WriteOk(s) \/ WriteFail(s)

Next ==
    \/ \E sv \in Servers : Accept(sv, BOOLEAN)
    \/ \E s \in Sessions : ReadHeaderDone(s, BOOLEAN)
    \/ \E s \in Sessions : ReadBodyDone(s, MaxDelivers)
    \/ \E s \in Sessions : WriteDone(s)

Spec == Init /\ [][Next]_vars

(***************************************************************************)
(* Scheduling.  io_context.run() runs the handler of every operation that  *)
(* has completed.  An async_write of a frame completes, with or without an *)
(* error, without waiting for the peer: weak fairness of WriteDone.  An    *)
(* async_read completes when the peer's bytes arrive or the connection     *)
(* breaks, and an async_accept when a client connects; the code arms no    *)
(* timer and closes no socket, so nothing in it makes a pending read or    *)
(* accept complete: no fairness for them.                                  *)
(***************************************************************************)
SpecFair == Init /\ [][Next]_vars /\ \A s \in Sessions : WF_vars(WriteDone(s))

(***************************************************************************)
(* The program on sockets whose writes all succeed: accepts and reads may  *)
(* fail as before, every write completes without an error, and the write   *)
(* completions are scheduled fairly as in SpecFair.                        *)
(***************************************************************************)
NextDrain ==
    \/ \E sv \in Servers : Accept(sv, BOOLEAN)
    \/ \E s \in Sessions : ReadHeaderDone(s, BOOLEAN)
    \/ \E s \in Sessions : ReadBodyDone(s, MaxDelivers)
    \/ \E s \in Sessions : WriteOk(s)

SpecDrain == Init /\ [][NextDrain]_vars /\ \A s \in Sessions : WF_vars(WriteOk(s))

(***************************************************************************)
(* The same program late in a run, on a transport that reports no error:   *)
(* the session accepted first, on port 1, has sent HistBase frames "hi"    *)
(* and has been written each of them back, so that the room of port 1 is   *)
(* one message short of max_recent_msgs.                                   *)
(***************************************************************************)
HistBase == max_recent_msgs - 1

HistFrame(k) ==
    LET frame == encode_header(2) \o <<"h", "i">>
    IN  [body_length |-> 2, data |-> frame, id |-> k, src |-> frame]

InitHist ==
    /\ heap \in Garbage
    /\ participants = [sv \in Servers |-> IF sv = 1 THEN {1} ELSE {}]
    /\ recent_msgs = [sv \in Servers |->
            IF sv = 1 THEN [k \in 1..HistBase |-> CopyMessage(HistFrame(k), heap)]
            ELSE <<>>]
    /\ port = [s \in Sessions |-> IF s = 1 THEN 1 ELSE 0]
    /\ rd = [s \in Sessions |-> IF s = 1 THEN "header" ELSE "none"]
    /\ reading = [s \in Sessions |-> IF s = 1 THEN 1 ELSE 0]
    /\ read_msg = [s \in Sessions |->
            IF s = 1 THEN [HistFrame(0) EXCEPT !.src = <<>>] ELSE NewMessage]
    /\ write_msgs = [s \in Sessions |-> <<>>]
    /\ writing = [s \in Sessions |-> 0]
    /\ socket_out = [s \in Sessions |->
            IF s = 1 THEN [k \in 1..HistBase |-> CopyMessage(HistFrame(k), heap)]
            ELSE <<>>]
    /\ calls = [sv \in Servers |-> IF sv = 1 THEN HistBase ELSE 0]
    /\ join_at = [s \in Sessions |-> IF s = 1 THEN 0 ELSE -1]
    /\ acceptor = [sv \in Servers |-> [armed |-> 1, errors |-> 0]]
    /\ msg = InitMsg

\* MaxDelivers more frames
HistLimit == HistBase + MaxDelivers

NextHist ==
    \/ \E sv \in Servers : Accept(sv, {FALSE})
    \/ \E s \in Sessions : ReadHeaderDone(s, {FALSE})
    \/ \E s \in Sessions : ReadBodyOk(s, HistLimit)
    \/ \E s \in Sessions : WriteOk(s)

SpecHist == InitHist /\ [][NextHist]_vars

(***************************************************************************)
(* The codec on its own: a ChatMessage is constructed (by default, or with *)
(* a body length), has its body_length set, is encoded and decoded again   *)
(* or copied, and a ChatMessage whose header field came off the wire is    *)
(* decoded.  msg is [pc, m, n0, ok]: n0 is the body_length before          *)
(* encode_header (-1 for a field off the wire), ok is what decode_header   *)
(* returned.                                                               *)
(***************************************************************************)
\* the lengths callers pass to the constructor and to the setter: every
\* length a body can have, and two no body can have
CallerLengths == (0..max_body_length) \cup {max_body_length + 1, 9999}

\* ChatMessage::body_length(std::size_t new_length): the value body_length_
\* is left with
BodyLength(new_length) ==
    IF new_length > max_body_length THEN max_body_length ELSE new_length

\* chars a header field off the wire is made of: digits, blanks, signs, a
\* letter and NUL
HeaderChars == {" ", "\t", "0", "1", "2", "3", "5", "9", "-", "+", "x", NUL}
HeaderFields == [1..header_length -> HeaderChars]

InitCodec ==
    /\ SessionInit
    /\ heap = Junk
    /\ \/ msg = [pc |-> "new", m |-> NewMessage, n0 |-> 0, ok |-> TRUE]
       \/ \E n \in CallerLengths :
            msg = [pc |-> "set", m |-> [NewMessage EXCEPT !.body_length = n],
                   n0 |-> n, ok |-> TRUE]
       \/ \E f \in HeaderFields :
            msg = [pc |-> "wire", m |-> [NewMessage EXCEPT !.data = f],
                   n0 |-> -1, ok |-> TRUE]

\* msg.encode_header()
EncodeHeader ==
    /\ msg.pc = "set"
    /\ msg' = [msg EXCEPT !.pc = "encoded",
                          !.m.data = encode_header(msg.m.body_length)
                                        \o Drop(msg.m.data, header_length)]
    /\ UNCHANGED <<sessionVars, acceptor>>

\* msg.decode_header()
DecodeHeader ==
    /\ msg.pc \in {"encoded", "wire"}
    /\ LET d == decode_header(msg.m.data)
       IN  msg' = [msg EXCEPT !.pc = "decoded", !.ok = d.ok,
                              !.m.body_length = d.body_length]
    /\ UNCHANGED <<sessionVars, acceptor>>

\* msg.body_length(new_length)
SetBodyLength ==
    /\ msg.pc \in {"new", "set"}
    /\ \E new_length \in CallerLengths :
           msg' = [msg EXCEPT !.pc = "set",
                              !.m.body_length = BodyLength(new_length),
                              !.n0 = BodyLength(new_length)]
    /\ UNCHANGED <<sessionVars, acceptor>>

\* ChatMessage(msg): from here on msg is the copy
CopyConstruct ==
    /\ msg.pc \in {"set", "decoded"}
    /\ msg' = [msg EXCEPT !.pc = "copied", !.m = CopyMessage(msg.m, heap)]
    /\ UNCHANGED <<sessionVars, acceptor>>

NextCodec == SetBodyLength \/ EncodeHeader \/ DecodeHeader \/ CopyConstruct

SpecCodec == InitCodec /\ [][NextCodec]_vars

(***************************************************************************)
(* Claims about the room and the sessions.                                 *)
(***************************************************************************)
\* every message ever put on session s's outbound queue, in queue order: the
\* ones written to the socket, then the ones still queued
Log(s) == socket_out[s] \o write_msgs[s]

Ids(q) == [i \in 1..Len(q) |-> q[i].id]

Accepted == {s \in Sessions : port[s] # 0}

\* the room session s is bound to
Room(s) == RoomOf(port[s])

Members == UNION {participants[r] : r \in Servers}

Min(a, b) == IF a < b THEN a ELSE b

\* in this step ChatRoom::deliver ran on room r
DeliverStep(r) == calls'[r] # calls[r]

\* in this step an error handler of session s called room_.leave
LeaveStep(s) ==
    \/ rd[s] \in {"header", "body"} /\ rd'[s] = "stopped"
    \/ writing[s] > 0 /\ writing'[s] < writing[s] /\ write_msgs'[s] = write_msgs[s]

\* C1 Per-participant order preservation: the messages enqueued to a session,
\* and so the ones written to its socket, are in the order of the
\* ChatRoom::deliver calls, and a session that has been a member since it
\* joined has every message delivered since then.
C1_OrderPreservation ==
    \A s \in Accepted :
        LET L == Log(s)
        IN  /\ \A i, j \in 1..Len(L) : i < j => L[i].id < L[j].id
            /\ s \in participants[Room(s)] =>
                   \A k \in (join_at[s] + 1)..calls[Room(s)] :
                       \E i \in 1..Len(L) : L[i].id = k

\* two sessions were members during two deliver calls and each was written
\* both messages, the first first
C1_Witness ==
    \E s, t \in Accepted :
        /\ s # t
        /\ join_at[s] = 0 /\ join_at[t] = 0
        /\ Ids(socket_out[s]) = <<1, 2>>
        /\ Ids(socket_out[t]) = <<1, 2>>

\* C2 Replay-on-join: a join enqueues exactly the messages of the history to
\* the joining session and to no other, in history order, and in a session's
\* queue they all precede every message delivered after its join.
C2_JoinStep ==
    \A s \in Sessions :
        (port[s] = 0 /\ port'[s] # 0) =>
            LET h == recent_msgs[RoomOf(port'[s])]
                q == write_msgs'[s]
            IN  /\ Len(q) = Len(h)
                /\ \A i \in 1..Len(h) :
                       /\ q[i].id = h[i].id
                       /\ q[i].body_length = h[i].body_length
                       /\ q[i].src = h[i].src
                /\ \A t \in Sessions \ {s} : write_msgs'[t] = write_msgs[t]
                /\ socket_out' = socket_out

C2_ReplayedFirst ==
    \A s \in Accepted :
        LET L == Log(s)
            N == Min(join_at[s], max_recent_msgs)
        IN  /\ Len(L) >= N
            /\ \A i \in 1..Len(L) : (L[i].id <= join_at[s]) <=> (i <= N)
            /\ \A i \in 1..N : L[i].id = join_at[s] - N + i

\* C2: every join step replays exactly the history to the joiner alone, and
\* in every state the replayed messages come first in the joiner's queue
C2_ReplayOnJoin == [][C2_JoinStep]_vars /\ []C2_ReplayedFirst

\* a session joined a room holding max_recent_msgs messages, was replayed
\* them all and then received the next message delivered
C2_Witness ==
    \E s \in Accepted :
        /\ join_at[s] = max_recent_msgs
        /\ Len(Log(s)) = max_recent_msgs + 1
        /\ Log(s)[1].id = 1
        /\ Log(s)[max_recent_msgs + 1].id = max_recent_msgs + 1

\* C3 History bound: the history holds at most max_recent_msgs messages;
\* after k deliver calls it is the last min(k, max_recent_msgs) messages
\* delivered, oldest first; a step that is no deliver call (a join, a leave,
\* a write) leaves it as it is.
C3_LastDelivered ==
    \A r \in Servers :
        LET h == recent_msgs[r]
            n == Min(calls[r], max_recent_msgs)
        IN  /\ Len(h) <= max_recent_msgs
            /\ Len(h) = n
            /\ \A i \in 1..n : h[i].id = calls[r] - n + i

\* C3: the history is always the last min(k, max_recent_msgs) messages
\* delivered, and only a deliver call changes it
C3_HistoryBound ==
    []C3_LastDelivered /\ [][calls' = calls => recent_msgs' = recent_msgs]_vars

\* the 101st message was delivered and the oldest one evicted
C3_Witness ==
    \E r \in Servers :
        /\ calls[r] = max_recent_msgs + 1
        /\ Len(recent_msgs[r]) = max_recent_msgs
        /\ recent_msgs[r][1].id = 2

\* C4 Body content preservation: every frame a session has written to its
\* socket has the body length and the body bytes of the frame the sending
\* session read.
C4_BodyPreservation ==
    \A s \in Accepted :
        \A i \in 1..Len(socket_out[s]) :
            LET f == socket_out[s][i]
            IN  /\ f.body_length = Len(f.src) - header_length
                /\ body(f) = Drop(f.src, header_length)

C5_MembersOfOwnPort ==
    \A r \in Servers : \A s \in participants[r] : port[s] = r

C5_DeliverStaysOnPort ==
    \A r \in Servers :
        DeliverStep(r) =>
            /\ \A t \in Sessions :
                   IF port[t] = r /\ t \in participants[r]
                   THEN Len(write_msgs'[t]) = Len(write_msgs[t]) + 1
                   ELSE write_msgs'[t] = write_msgs[t]
            /\ \A r2 \in Servers \ {r} : recent_msgs'[r2] = recent_msgs[r2]
            /\ recent_msgs'[r][Len(recent_msgs'[r])].id = calls'[r]

C6_FanOut ==
    [][\A r \in Servers :
          DeliverStep(r) =>
              /\ participants' = participants
              /\ socket_out' = socket_out
              /\ \A t \in Sessions :
                     IF t \in participants[r]
                     THEN /\ Len(write_msgs'[t]) = Len(write_msgs[t]) + 1
                          /\ Take(write_msgs'[t], Len(write_msgs[t])) = write_msgs[t]
                          /\ LET x == write_msgs'[t][Len(write_msgs'[t])]
                             IN  /\ x.id = calls'[r]
                                 /\ \E s \in Sessions :
                                        /\ rd[s] = "body" /\ port[s] # 0 /\ Room(s) = r
                                        /\ x.src = read_msg'[s].data
                                        /\ x.body_length = read_msg'[s].body_length
                     ELSE write_msgs'[t] = write_msgs[t]
      ]_vars

\* a room of two members, one of them the sender, had one message delivered:
\* each member's queue history holds it once
C6_Witness ==
    \E r \in Servers :
        /\ Cardinality(participants[r]) = 2
        /\ calls[r] = 1
        /\ \A t \in participants[r] : Ids(Log(t)) = <<1>>
        /\ \E s \in participants[r] : Log(s)[1].src = read_msg[s].data

\* C9 Idempotent leave: leave on a session that is not a member changes
\* neither the membership nor the history nor another session's queue;
\* leave on a member removes exactly that session.
C9_IdempotentLeave ==
    [][\A s \in Accepted :
          LeaveStep(s) =>
              /\ recent_msgs' = recent_msgs
              /\ \A t \in Sessions \ {s} :
                     /\ write_msgs'[t] = write_msgs[t]
                     /\ writing'[t] = writing[t]
                     /\ rd'[t] = rd[t]
              /\ socket_out' = socket_out
              /\ IF s \in participants[Room(s)]
                 THEN /\ participants'[Room(s)] = participants[Room(s)] \ {s}
                      /\ \A r \in Servers \ {Room(s)} : participants'[r] = participants[r]
                 ELSE participants' = participants
      ]_vars

\* a session's write failed and its read failed, so that the second of the
\* two leave calls found it no member, while another session stayed a member
C9_Witness ==
    \E s, t \in Accepted :
        /\ s # t
        /\ port[s] = port[t]
        /\ rd[s] = "stopped"
        /\ writing[s] = 0 /\ write_msgs[s] # <<>>
        /\ participants[Room(s)] = {t}

\* C10 No action after leaving: a session that is no longer a member of its
\* room does not call ChatRoom::deliver; a body read that completes after
\* the session left changes neither the history nor any queue.
C10_NoDeliverAfterLeave ==
    [][\A s \in Accepted :
          (s \notin participants[Room(s)] /\ rd[s] = "body" /\ rd'[s] # "body") =>
              /\ calls' = calls
              /\ recent_msgs' = recent_msgs
              /\ write_msgs' = write_msgs
      ]_vars

\* in this step session s took the error branch of a read handler as the
\* code writes it: it left its room, handed nothing to ChatRoom::deliver and
\* armed no read
ReadLoopEnded(s) ==
    /\ rd'[s] = "stopped"
    /\ s \notin participants'[Room(s)]
    /\ calls' = calls
    /\ recent_msgs' = recent_msgs
    /\ write_msgs' = write_msgs

\* in this step a header read of session s completed
HeaderReadStep(s) ==
    rd[s] = "header" /\ <<rd'[s], read_msg'[s]>> # <<rd[s], read_msg[s]>>

\* in this step a body read of session s completed
BodyReadStep(s) == rd[s] = "body" /\ rd'[s] # "body"

\* C11 Read failure is fatal to the read loop: a header read that completes
\* arms the body read only if the header in read_msg_ decodes, and otherwise
\* (I/O error or undecodable header) the session leaves its room, nothing is
\* handed to ChatRoom::deliver and no read is armed; a body read that
\* completes either delivers and arms the next header read or ends the read
\* loop in the same way; a read loop that ended never has a read armed again.
C11_ReadFailureFatal ==
    [][\A s \in Accepted :
          /\ HeaderReadStep(s) =>
                 \/ /\ rd'[s] = "body"
                    /\ decode_header(read_msg'[s].data).ok
                    /\ calls' = calls
                 \/ ReadLoopEnded(s)
          /\ (HeaderReadStep(s) /\ ~decode_header(read_msg'[s].data).ok) =>
                 ReadLoopEnded(s)
          /\ BodyReadStep(s) =>
                 \/ rd'[s] = "header" /\ calls'[Room(s)] = calls[Room(s)] + 1
                 \/ ReadLoopEnded(s)
          /\ rd[s] = "stopped" => rd'[s] = "stopped"
      ]_vars

\* one session's read loop ended on an undecodable header, another's on a
\* body read that failed after its header had announced two bytes; neither
\* is a member and nothing was delivered
C11_Witness ==
    \E s, t \in Accepted :
        /\ s # t
        /\ rd[s] = "stopped" /\ rd[t] = "stopped"
        /\ read_msg[s].data = <<"9", "9", "9", "9">> /\ read_msg[s].body_length = 0
        /\ read_msg[t].body_length = 2
        /\ Members = {}
        /\ \A r \in Servers : calls[r] = 0 /\ recent_msgs[r] = <<>>

\* an error handler of session s has run: sessions join at their accept and
\* leave in the error branches only
Failed(s) == s \in Accepted /\ s \notin participants[Room(s)]

\* no read and no write of session s is pending and the room does not hold
\* it: no shared_ptr to it is left
Closed(s) ==
    /\ s \in Accepted
    /\ reading[s] = 0 /\ writing[s] = 0
    /\ s \notin participants[Room(s)]

\* C12 Failed connections eventually close: once an error handler has run on
\* a session, the session eventually has no pending read, no pending write
\* and is not a member of its room.
C12_EventuallyClosed == \A s \in Sessions : Failed(s) ~> Closed(s)

\* C13 Accept loop never halts: every acceptor has exactly one accept armed
\* in every state, so each completion, failed or not, armed the next one; an
\* accept that completes with an error creates no session and changes
\* nothing of any room or session; an accept that succeeds creates one
\* session, which is a member of its server's room and has its header read
\* armed.
C13_OneAcceptArmed == \A sv \in Servers : acceptor[sv].armed = 1

C13_AcceptStep ==
    /\ \A sv \in Servers :
           acceptor'[sv].errors # acceptor[sv].errors =>
               UNCHANGED <<participants, recent_msgs, port, rd, reading, read_msg,
                           write_msgs, writing, socket_out, calls>>
    /\ \A s \in Sessions :
           (port[s] = 0 /\ port'[s] # 0) =>
               /\ \A t \in Sessions \ {s} :
                      /\ port'[t] = port[t]
                      /\ rd'[t] = rd[t]
                      /\ (t \in Members) <=> (t \in UNION {participants'[r] : r \in Servers})
               /\ participants'[RoomOf(port'[s])] = participants[RoomOf(port'[s])] \cup {s}
               /\ rd[s] = "none" /\ rd'[s] = "header"
               /\ acceptor'[port'[s]].errors = acceptor[port'[s]].errors

C13_AcceptLoop == []C13_OneAcceptArmed /\ [][C13_AcceptStep]_vars

\* an accept of a server failed, and the same acceptor accepted two sessions:
\* three completions, and an accept is armed still
C13_Witness ==
    \E sv \in Servers :
        /\ acceptor[sv].errors = 1
        /\ acceptor[sv].armed = 1
        /\ \E s, t \in participants[RoomOf(sv)] :
               s # t /\ port[s] = sv /\ port[t] = sv /\ rd[s] = "header" /\ rd[t] = "header"

\* C14 Error isolation: a step in which an error handler of session s runs
\* (a read loop ending, a write failing) removes s and nobody else from the
\* membership, leaves every other session's queue, pending read, read_msg_,
\* pending write and socket as they were, leaves every room's history as it
\* was, and enqueues nothing to any session, s included.
C14_ErrorIsolation ==
    [][\A s \in Accepted :
          LeaveStep(s) =>
              /\ \A r \in Servers : participants'[r] = participants[r] \ {s}
              /\ \A t \in Sessions \ {s} :
                     /\ rd'[t] = rd[t]
                     /\ read_msg'[t] = read_msg[t]
                     /\ writing'[t] = writing[t]
                     /\ port'[t] = port[t]
              /\ write_msgs' = write_msgs
              /\ socket_out' = socket_out
              /\ recent_msgs' = recent_msgs
              /\ calls' = calls
      ]_vars

\* session s sent an undecodable header and is out; session t of the same
\* room is a member still, in the middle of a frame, with the message it was
\* delivered before queued and being written; the history holds that message
C14_Witness ==
    \E s, t \in Accepted :
        /\ s # t /\ port[s] = port[t]
        /\ rd[s] = "stopped" /\ read_msg[s].data = <<"9", "9", "9", "9">>
        /\ participants[Room(t)] = {t}
        /\ rd[t] = "body"
        /\ Ids(write_msgs[t]) = <<1>> /\ writing[t] = 1
        /\ Ids(write_msgs[s]) = <<1>> /\ writing[s] = 1
        /\ Ids(recent_msgs[Room(t)]) = <<1>>

\* C15 Single write in flight: a session never has more than one async_write
\* outstanding, and while one is outstanding its queue is not empty; an
\* enqueue starts a write exactly when the queue was empty before it; a
\* completed write pops the front, which is the frame it put on the socket,
\* and starts the next write exactly when the queue is not empty after the
\* pop; no other step starts a write, and until the write completes the
\* front of the queue stays the same message.
C15_OneOutstanding ==
    \A s \in Sessions :
        /\ writing[s] \in {0, 1}
        /\ writing[s] > 0 => write_msgs[s] # <<>>

C15_WriteStep ==
    \A s \in Sessions :
        /\ Len(write_msgs'[s]) > Len(write_msgs[s]) =>
               writing'[s] = (IF write_msgs[s] = <<>> THEN writing[s] + 1 ELSE writing[s])
        /\ socket_out'[s] # socket_out[s] =>
               /\ writing[s] = 1 /\ write_msgs[s] # <<>>
               /\ socket_out'[s] = Append(socket_out[s], Head(write_msgs[s]))
               /\ write_msgs'[s] = Tail(write_msgs[s])
               /\ writing'[s] = (IF write_msgs'[s] # <<>> THEN 1 ELSE 0)
        /\ writing'[s] > writing[s] =>
               write_msgs[s] = <<>> /\ write_msgs'[s] # <<>>
        /\ (writing[s] > 0 /\ socket_out'[s] = socket_out[s]) =>
               write_msgs'[s] # <<>> /\ Head(write_msgs'[s]) = Head(write_msgs[s])

C15_SingleWrite == []C15_OneOutstanding /\ [][C15_WriteStep]_vars

\* two deliver calls reached session s before its first write completed: one
\* write is outstanding with both messages queued; session t's first write
\* completed with the second message queued, and its next write is
\* outstanding
C15_Witness ==
    \E s, t \in Accepted :
        /\ s # t
        /\ Ids(write_msgs[s]) = <<1, 2>> /\ socket_out[s] = <<>> /\ writing[s] = 1
        /\ Ids(socket_out[t]) = <<1>> /\ Ids(write_msgs[t]) = <<2>> /\ writing[t] = 1

\* a write of session s completed with an error: no write is outstanding
\* over a queue that is not empty (by C15 a deliver or a successful
\* completion never leaves that)
WriteFailed(s) == s \in Accepted /\ writing[s] = 0 /\ write_msgs[s] # <<>>

\* C16 Write error stops the write loop: a step in which a session leaves its
\* room with its read untouched is a failed write, and after it no write is
\* outstanding; once a write has failed the session is no member, no write
\* is started on it any more, its queue stays as the failure left it, the
\* failed message at its front, and nothing more reaches its socket.
C16_StoppedForGood ==
    \A s \in Sessions :
        WriteFailed(s) =>
            /\ s \notin participants[Room(s)]
            /\ writing'[s] = 0
            /\ write_msgs'[s] = write_msgs[s]
            /\ socket_out'[s] = socket_out[s]
            /\ s \notin participants'[Room(s)]

C16_FailStep ==
    \A s \in Accepted :
        /\ (s \in participants[Room(s)] /\ s \notin participants'[Room(s)] /\ rd'[s] = rd[s]) =>
               /\ writing[s] = 1 /\ writing'[s] = 0
               /\ write_msgs'[s] = write_msgs[s] /\ write_msgs[s] # <<>>
               /\ socket_out'[s] = socket_out[s]
        /\ (writing'[s] < writing[s] /\ socket_out'[s] = socket_out[s]) =>
               /\ s \notin participants'[Room(s)]
               /\ write_msgs'[s] = write_msgs[s] /\ write_msgs[s] # <<>>

C16_WriteErrorStops == [][C16_FailStep /\ C16_StoppedForGood]_vars

\* the first write of session s failed with two messages queued: both are in
\* its queue still, nothing reached its socket, s is out, and session t of
\* the same room has been written both
C16_Witness ==
    \E s, t \in Accepted :
        /\ s # t /\ port[s] = port[t]
        /\ WriteFailed(s)
        /\ Ids(write_msgs[s]) = <<1, 2>> /\ socket_out[s] = <<>>
        /\ s \notin participants[Room(s)]
        /\ Ids(socket_out[t]) = <<1, 2>> /\ write_msgs[t] = <<>> /\ writing[t] = 0

\* C17 Sequential read loop: a session has at most one async_read
\* outstanding, one exactly while its loop runs; a body read is armed only by
\* a completed header read whose header decodes, with read_msg_'s
\* body_length the decoded one, and delivers nothing; a header read is armed
\* (after the accept) only by a completed body read, in whose step
\* ChatRoom::deliver runs once, on the session's room, with the frame just
\* read, the header and exactly body_length body bytes; no other step runs
\* ChatRoom::deliver.
C17_OneRead ==
    \A s \in Sessions :
        /\ reading[s] \in {0, 1}
        /\ reading[s] = 1 <=> rd[s] \in {"header", "body"}
        /\ s \in Accepted <=> rd[s] # "none"

C17_ReadStep ==
    /\ \A s \in Accepted :
        /\ (rd[s] # "body" /\ rd'[s] = "body") =>
               LET d == decode_header(Take(read_msg'[s].data, header_length))
               IN  /\ rd[s] = "header"
                   /\ d.ok
                   /\ read_msg'[s].body_length = d.body_length
                   /\ calls' = calls
        /\ (rd[s] # "header" /\ rd'[s] = "header") =>
               LET r == Room(s)
                   h == recent_msgs'[r]
                   x == h[Len(h)]
               IN  /\ rd[s] = "body"
                   /\ calls'[r] = calls[r] + 1
                   /\ \A r2 \in Servers \ {r} : calls'[r2] = calls[r2]
                   /\ x.id = calls'[r]
                   /\ x.src = read_msg'[s].data
                   /\ x.body_length = read_msg[s].body_length
                   /\ Len(x.src) = header_length + read_msg[s].body_length
                   /\ Take(x.src, header_length) = Take(read_msg[s].data, header_length)
    /\ calls' # calls =>
           \E s \in Accepted :
               /\ rd[s] = "body" /\ rd'[s] = "header"
               /\ \A t \in Sessions \ {s} : rd'[t] = rd[t]

C17_SequentialRead == []C17_OneRead /\ [][C17_ReadStep]_vars

\* a session read two frames, one after the other, and has its third header
\* read armed: both frames were delivered, in that order, the first with a
\* body of two bytes
C17_Witness ==
    \E s \in Accepted :
        /\ rd[s] = "header" /\ reading[s] = 1
        /\ calls[Room(s)] = 2
        /\ Ids(recent_msgs[Room(s)]) = <<1, 2>>
        /\ recent_msgs[Room(s)][1].src = <<" ", " ", " ", "2", "h", "i">>
        /\ recent_msgs[Room(s)][2].src = read_msg[s].data
        /\ Accepted = {s}

\* the deliver-call numbers of the messages in q
IdSet(q) == {q[i].id : i \in 1..Len(q)}

\* C19 Queue drain, on sockets whose writes all succeed and under fair
\* scheduling of the write completions: every message in a session's queue
\* is eventually on its socket; no message is on a socket twice; and, the
\* deliver calls of a run being finitely many, from some point on every
\* queue is empty with no write outstanding.  Sessions that left their room
\* through a read error are sessions like the others here.
C19_EventuallyWritten ==
    \A s \in Sessions : \A k \in 1..MaxDelivers :
        (k \in IdSet(write_msgs[s])) ~> (k \in IdSet(socket_out[s]))

C19_WrittenOnce ==
    \A s \in Sessions :
        \A i, j \in 1..Len(socket_out[s]) :
            i # j => socket_out[s][i].id # socket_out[s][j].id

C19_Idle == \A s \in Sessions : write_msgs[s] = <<>> /\ writing[s] = 0

C19_QueueDrain == C19_EventuallyWritten /\ []C19_WrittenOnce /\ <>[]C19_Idle

\* a session whose read loop ended on an undecodable header has been written
\* both messages it was delivered and is idle with an empty queue
C19_Witness ==
    \E s \in Accepted :
        /\ rd[s] = "stopped" /\ read_msg[s].data = <<"9", "9", "9", "9">>
        /\ s \notin participants[Room(s)]
        /\ Ids(socket_out[s]) = <<1, 2>>
        /\ write_msgs[s] = <<>> /\ writing[s] = 0

(***************************************************************************)
(* Claims about the codec (checked under SpecCodec).                       *)
(***************************************************************************)
\* the int std::atoi parses from the header field of msg
ParsedValue == atoi(strncat_header(msg.m.data))

\* C7 Header round-trip: a message whose body_length is n, 0 <= n <=
\* max_body_length, after encode_header followed by decode_header reports
\* success and has body_length n again.
C7_HeaderRoundTrip ==
    (msg.pc = "decoded" /\ msg.n0 \in 0..max_body_length) =>
        (msg.ok /\ msg.m.body_length = msg.n0)

\* the largest length made the round trip
C7_Witness ==
    /\ msg.pc = "decoded"
    /\ msg.n0 = max_body_length
    /\ Take(msg.m.data, header_length) = <<" ", "5", "1", "2">>
    /\ msg.ok

\* C8 as claimed: for every content of the header field, decode_header fails
\* and sets body_length to 0 if the parsed value exceeds max_body_length, and
\* otherwise succeeds and sets body_length to the parsed value.
C8_RejectionAsClaimed ==
    msg.pc = "decoded" =>
        IF ParsedValue > max_body_length
        THEN ~msg.ok /\ msg.m.body_length = 0
        ELSE msg.ok /\ msg.m.body_length = ParsedValue

\* C8 amended: decode_header fails and sets body_length to 0 if the parsed
\* value is negative or exceeds max_body_length, and otherwise succeeds and
\* sets body_length to the parsed value.
C8_HeaderRejection ==
    msg.pc = "decoded" =>
        IF ParsedValue < 0 \/ ParsedValue > max_body_length
        THEN ~msg.ok /\ msg.m.body_length = 0
        ELSE msg.ok /\ msg.m.body_length = ParsedValue

\* a signed field off the wire was decoded and rejected
C8_Witness ==
    /\ msg.pc = "decoded"
    /\ msg.n0 = -1
    /\ ParsedValue < 0
    /\ ~msg.ok
    /\ msg.m.body_length = 0

\* C18 Message length invariant: every ChatMessage, however it was
\* constructed or changed, has 0 <= body_length <= max_body_length and
\* length() = header_length + body_length, and the header encode_header
\* wrote holds that body_length.
C18_LengthInvariant ==
    /\ msg.m.body_length \in 0..max_body_length
    /\ length(msg.m) = header_length + msg.m.body_length
    /\ msg.pc = "encoded" =>
           decode_header(msg.m.data) = [ok |-> TRUE, body_length |-> msg.m.body_length]

====
